---- MODULE Spec2Model ----
(***************************************************************************)
(* Model of src/main.py: the Flask front end of an LSB steganography       *)
(* service.  The upload folder is shared by all request threads; every     *)
(* handler is split at its file-system operations, which is where threads  *)
(* of the (threaded) server can interleave.                                *)
(*                                                                         *)
(* The bit-level codec is the third-party package `stegano` (main.py:3);   *)
(* its code is not part of the repository.  lsb.hide / lsb.reveal are      *)
(* modelled only by what main.py itself documents and handles: the         *)
(* docstrings of encode_message / decode_message (an Image "with hidden    *)
(* message", "the hidden message or None") and the `except Exception`      *)
(* clauses for calls that raise.                                           *)
(***************************************************************************)
EXTENDS Integers, Sequences, FiniteSets, TLC

\* ---------------------------------------------------------------- bounds
NumRequests == 2

Requests == 1..NumRequests

\* ------------------------------------------------------- program constants
MaxMessageLen == 10000

ALLOWED_EXTENSIONS == { <<"jpg">>, <<"jpeg">>, <<"png">> }

\* ------------------------------------------------------------ file names
\* A file name is a sequence of tokens; the token "." is the dot character.
UploadNames ==
  { <<>>,
    <<"a", ".", "png">>,
    <<"a", ".", "JPG">>,
    <<"a", ".", "txt">> }

lower(tok) == IF tok = "JPG" THEN "jpg" ELSE IF tok = "PNG" THEN "png" ELSE tok

LowerSeq(s) == [i \in 1..Len(s) |-> lower(s[i])]

HasDot(f) == \E i \in 1..Len(f) : f[i] = "."

LastDot(f) == CHOOSE i \in 1..Len(f) : f[i] = "." /\ \A j \in (i+1)..Len(f) : f[j] # "."

\* filename.rsplit('.', 1)[1]
rsplit1(f) == SubSeq(f, LastDot(f) + 1, Len(f))

allowed_file(filename) ==
  HasDot(filename) /\ LowerSeq(rsplit1(filename)) \in ALLOWED_EXTENSIONS

RECURSIVE StripDots(_)
StripDots(f) ==
  IF f = <<>> THEN f
  ELSE IF Head(f) = "." THEN StripDots(Tail(f))
  ELSE IF f[Len(f)] = "." THEN StripDots(SubSeq(f, 1, Len(f) - 1))
  ELSE f

\* werkzeug's secure_filename on these names: leading/trailing dots go.
secure_filename(f) == StripDots(f)

\* os.path.splitext(filename)[0]: the part before the last dot, unless the
\* name has no dot or only leading dots.
splitext0(f) ==
  IF HasDot(f) /\ (\E j \in 1..(LastDot(f) - 1) : f[j] # ".")
  THEN SubSeq(f, 1, LastDot(f) - 1)
  ELSE f

temp_path(filename) == <<"temp_">> \o filename

\* A variant that keeps the extension of the upload.
output_filename_keep_ext(filename) == <<"encoded_">> \o filename

output_filename(filename) == <<"encoded_">> \o splitext0(filename) \o <<".", "png">>

\* The files the handlers can create in the upload folder.
Paths ==
  LET ok == { n \in UploadNames : n # <<>> /\ allowed_file(n) }
  IN  { temp_path(secure_filename(n)) : n \in ok }
        \cup { output_filename(secure_filename(n)) : n \in ok }

startswith_encoded(p) == Len(p) > 0 /\ p[1] = "encoded_"

\* ------------------------------------------------------------ image data
None == [some |-> FALSE, text |-> ""]

Some(t) == [some |-> TRUE, text |-> t]

\* Python truthiness of `hidden_message` (None and '' are falsy).
Truthy(v) == v.some /\ v.text # ""

Garbage == [valid |-> FALSE, carrier |-> "-", hidden |-> None]

Image(c, h) == [valid |-> TRUE, carrier |-> c, hidden |-> h]

\* What a client can upload: bytes that are not an image, plain carriers,
\* and carriers that already hold a message (the empty one included).
Uploads ==
  { Garbage,
    Image("c1", None),
    Image("c1", Some("")),
    Image("c2", Some("hi")) }

\* request.form.get('message', ''): the text and its len().
Messages ==
  { [text |-> "", len |-> 0],
    [text |-> "hi", len |-> 2],
    [text |-> "long", len |-> MaxMessageLen + 1] }

NoMessage == [text |-> "", len |-> 0]

NoFile == [exists |-> FALSE, data |-> Garbage, fmt |-> "-"]

File(d, f) == [exists |-> TRUE, data |-> d, fmt |-> f]

\* lsb.hide / lsb.reveal raise when the path holds no decodable image.
Readable(file) == file.exists /\ file.data.valid

\* encode_message: "Image object with hidden message".
encode_message(file, message) == Image(file.data.carrier, Some(message.text))

\* decode_message: "The hidden message or None if no message found".
decode_message(file) == file.data.hidden

\* Image.save(path): the format follows the extension of the path; only a
\* lossless format keeps the low-order bits.
SaveFormat(path) ==
  IF LowerSeq(rsplit1(path)) = <<"png">> THEN "PNG" ELSE "JPEG"

SaveImage(img, path) ==
  IF SaveFormat(path) = "PNG"
  THEN File(img, "PNG")
  ELSE File([img EXCEPT !.hidden = None], "JPEG")

\* -------------------------------------------------------------- responses
Resp(status, what, msg, file) ==
  [status |-> status, what |-> what, msg |-> msg, file |-> file]

NoResp == Resp(0, "-", None, NoFile)

NoPath == <<>>

Idle ==
  [kind |-> "-", pc |-> "idle", name |-> <<>>, data |-> Garbage,
   message |-> NoMessage, seen |-> NoFile, encoded |-> Garbage,
   hidden |-> None, listing |-> {}, url |-> NoPath, response |-> NoResp]

\* ------------------------------------------------------------------ state
VARIABLES files, req

vars == <<files, req>>

Init ==
  /\ files = [p \in Paths |-> NoFile]
  /\ req = [r \in Requests |-> Idle]

Finish(r, rec, response) ==
  req' = [req EXCEPT ![r] = [rec EXCEPT !.pc = "done", !.response = response]]

\* ----------------------------------------------------------------- /encode
\* Lines 59-78: the checks before the try block, in the order of the code.
EncodeValidate(method, hasImage, name, message) ==
  IF method # "POST" THEN "page"
  ELSE IF ~hasImage THEN "No image file provided"
  ELSE IF name = <<>> THEN "No image file selected"
  ELSE IF message.len = 0 THEN "Please enter a message to encode"
  ELSE IF message.len > MaxMessageLen THEN "Message is too long"
  ELSE IF ~allowed_file(name) THEN "Only .jpg, .jpeg, and .png files are allowed"
  ELSE "ok"

\* A request arrives; it is answered at once (GET page, 400) or its upload
\* is saved as temp_<filename> (lines 82-84).
EncodeBegin(r) ==
  /\ req[r].pc = "idle"
  /\ \E method \in {"GET", "POST"}, hasImage \in BOOLEAN, name \in UploadNames,
        data \in Uploads, message \in Messages :
       LET v == EncodeValidate(method, hasImage, name, message)
           rec == [Idle EXCEPT !.kind = "encode"]
           filename == secure_filename(name)
       IN  IF v = "page"
           THEN /\ Finish(r, rec, Resp(200, "encode.html", None, NoFile))
                /\ UNCHANGED files
           ELSE IF v # "ok"
           THEN /\ Finish(r, rec, Resp(400, v, None, NoFile))
                /\ UNCHANGED files
           ELSE /\ files' = [files EXCEPT ![temp_path(filename)] = File(data, "upload")]
                /\ req' = [req EXCEPT ![r] =
                             [rec EXCEPT !.pc = "codec", !.name = filename,
                                         !.data = data, !.message = message]]

\* Line 87: encode_message(filepath, message); an exception goes to line 103.
EncodeCodec(r) ==
  /\ req[r].kind = "encode" /\ req[r].pc = "codec"
  /\ LET f == files[temp_path(req[r].name)]
         rec == [req[r] EXCEPT !.seen = f]
     IN  IF Readable(f)
         THEN req' = [req EXCEPT ![r] =
                        [rec EXCEPT !.pc = "out",
                                    !.encoded = encode_message(f, req[r].message)]]
         ELSE Finish(r, rec, Resp(500, "Error encoding message", None, NoFile))
  /\ UNCHANGED files

\* Lines 90-92: encoded_image.save(output_path).
EncodeOut(r) ==
  /\ req[r].kind = "encode" /\ req[r].pc = "out"
  /\ LET out == output_filename(req[r].name)
     IN  /\ files' = [files EXCEPT ![out] = SaveImage(req[r].encoded, out)]
         /\ req' = [req EXCEPT ![r].pc = "rm", ![r].url = out]

\* Lines 95-101: os.remove(filepath), then the success answer; os.remove
\* raises when the file is gone, which line 103 turns into a 500.
EncodeRemove(r) ==
  /\ req[r].kind = "encode" /\ req[r].pc = "rm"
  /\ LET t == temp_path(req[r].name)
     IN  IF files[t].exists
         THEN /\ files' = [files EXCEPT ![t] = NoFile]
              /\ Finish(r, req[r], Resp(200, "Message encoded successfully!", None, NoFile))
         ELSE /\ Finish(r, req[r], Resp(500, "Error encoding message", None, NoFile))
              /\ UNCHANGED files

\* ----------------------------------------------------------------- /decode
\* Lines 111-123.
DecodeValidate(method, hasImage, name) ==
  IF method # "POST" THEN "page"
  ELSE IF ~hasImage THEN "No image file provided"
  ELSE IF name = <<>> THEN "No image file selected"
  ELSE IF ~allowed_file(name) THEN "Only .jpg, .jpeg, and .png files are allowed"
  ELSE "ok"

\* Lines 111-129.
DecodeBegin(r) ==
  /\ req[r].pc = "idle"
  /\ \E method \in {"GET", "POST"}, hasImage \in BOOLEAN, name \in UploadNames,
        data \in Uploads :
       LET v == DecodeValidate(method, hasImage, name)
           rec == [Idle EXCEPT !.kind = "decode"]
           filename == secure_filename(name)
       IN  IF v = "page"
           THEN /\ Finish(r, rec, Resp(200, "decode.html", None, NoFile))
                /\ UNCHANGED files
           ELSE IF v # "ok"
           THEN /\ Finish(r, rec, Resp(400, v, None, NoFile))
                /\ UNCHANGED files
           ELSE /\ files' = [files EXCEPT ![temp_path(filename)] = File(data, "upload")]
                /\ req' = [req EXCEPT ![r] =
                             [rec EXCEPT !.pc = "codec", !.name = filename,
                                         !.data = data]]

\* Line 132: decode_message(filepath); an exception goes to line 148.
DecodeCodec(r) ==
  /\ req[r].kind = "decode" /\ req[r].pc = "codec"
  /\ LET f == files[temp_path(req[r].name)]
         rec == [req[r] EXCEPT !.seen = f]
     IN  IF Readable(f)
         THEN req' = [req EXCEPT ![r] =
                        [rec EXCEPT !.pc = "rm", !.hidden = decode_message(f)]]
         ELSE Finish(r, rec, Resp(500, "Error decoding message", None, NoFile))
  /\ UNCHANGED files

\* Lines 137-146: the answer once the temp file is removed.
DecodeAnswer(hidden_message) ==
  IF Truthy(hidden_message)
  THEN Resp(200, "found", hidden_message, NoFile)
  ELSE Resp(200, "No hidden message found in this image.", None, NoFile)

\* Lines 135-146.
DecodeRemove(r) ==
  /\ req[r].kind = "decode" /\ req[r].pc = "rm"
  /\ LET t == temp_path(req[r].name)
     IN  IF files[t].exists
         THEN /\ files' = [files EXCEPT ![t] = NoFile]
              /\ Finish(r, req[r], DecodeAnswer(req[r].hidden))
         ELSE /\ Finish(r, req[r], Resp(500, "Error decoding message", None, NoFile))
              /\ UNCHANGED files

\* ------------------------------------------------------ /download/<filename>
Download(r) ==
  /\ req[r].pc = "idle"
  /\ \E p \in Paths :
       LET rec == [Idle EXCEPT !.kind = "download", !.url = p]
       IN  IF ~files[p].exists \/ ~startswith_encoded(p)
           THEN Finish(r, rec, Resp(404, "File not found", None, NoFile))
           ELSE Finish(r, rec, Resp(200, "attachment", None, files[p]))
  /\ UNCHANGED files

\* ------------------------------------------------------------------ /cleanup
\* Line 171: os.listdir.
CleanupList(r) ==
  /\ req[r].pc = "idle"
  /\ req' = [req EXCEPT ![r] =
               [Idle EXCEPT !.kind = "cleanup", !.pc = "sweep",
                            !.listing = {p \in Paths : files[p].exists}]]
  /\ UNCHANGED files

\* Lines 172-174: one iteration of the loop, in directory order.
CleanupStep(r) ==
  /\ req[r].kind = "cleanup" /\ req[r].pc = "sweep"
  /\ \E p \in req[r].listing :
       /\ files' = [files EXCEPT ![p] = NoFile]
       /\ req' = [req EXCEPT ![r].listing = @ \ {p}]

\* Line 175.
CleanupDone(r) ==
  /\ req[r].kind = "cleanup" /\ req[r].pc = "sweep"
  /\ req[r].listing = {}
  /\ Finish(r, req[r], Resp(200, "Cleanup completed", None, NoFile))
  /\ UNCHANGED files

Next ==
  \E r \in Requests :
    \/ EncodeBegin(r)
    \/ EncodeCodec(r)
    \/ EncodeOut(r)
    \/ EncodeRemove(r)
    \/ DecodeBegin(r)
    \/ DecodeCodec(r)
    \/ DecodeRemove(r)
    \/ Download(r)
    \/ CleanupList(r)
    \/ CleanupStep(r)
    \/ CleanupDone(r)

Spec == Init /\ [][Next]_vars

\* ------------------------------------------------------------- properties
\* The request got past validation: its upload was saved as temp_<filename>.
Accepted(r) == req[r].kind \in {"encode", "decode"} /\ req[r].name # <<>>

\* The codec call of the request has been made.
CodecCalled(r) == Accepted(r) /\ req[r].pc \in {"out", "rm", "done"}

OwnUpload(r) == File(req[r].data, "upload")

\* C1: round trip.  A decode request whose upload is an image holding the
\* message M (the result of encoding M, the empty string included), whose
\* codec call read that upload and which was answered normally, got M back
\* from decode_message and reports M as the found message.
C1_RoundTrip ==
  \A r \in Requests :
    ( /\ req[r].kind = "decode" /\ req[r].pc = "done" /\ Accepted(r)
      /\ req[r].seen = OwnUpload(r)
      /\ req[r].data.valid /\ req[r].data.hidden.some
      /\ req[r].response.status = 200 )
    => /\ req[r].hidden = req[r].data.hidden
       /\ req[r].response = Resp(200, "found", req[r].data.hidden, NoFile)

\* C6: lossless serialization.  Every output an encode request stores is
\* written as PNG and holds exactly the image the codec returned, whatever
\* the extension of the upload; every encoded_ file in the folder is PNG.
C6_LosslessOutput ==
  /\ [](\A p \in Paths :
          (startswith_encoded(p) /\ files[p].exists) => files[p].fmt = "PNG")
  /\ [][\A r \in Requests :
          EncodeOut(r) =>
            files'[output_filename(req[r].name)] = File(req[r].encoded, "PNG")]_vars

\* C6 witness: an upload named a.JPG was encoded and its output is stored,
\* with the message in it.
C6_Witness ==
  \E r \in Requests :
    /\ req[r].kind = "encode" /\ req[r].pc \in {"rm", "done"}
    /\ Accepted(r)
    /\ rsplit1(req[r].name) = <<"JPG">>
    /\ req[r].url # NoPath
    /\ files[req[r].url].exists
    /\ files[req[r].url].data = req[r].encoded
    /\ req[r].encoded.hidden = Some("hi")

\* C7: request isolation.  The codec call of every encode/decode request
\* reads exactly the file that request uploaded, and the file behind the
\* download_url of a successful encode holds that request's encoded image.
C7_Isolation ==
  \A r \in Requests :
    /\ CodecCalled(r) => req[r].seen = OwnUpload(r)
    /\ ( req[r].kind = "encode" /\ req[r].pc = "done"
         /\ req[r].response.status = 200 /\ Accepted(r) )
       => files[req[r].url] = File(req[r].encoded, "PNG")

\* C8: read idempotence.  Two decode requests that uploaded the same image
\* under the same name get the same answer.
C8_ReadIdempotence ==
  \A r1, r2 \in Requests :
    ( /\ req[r1].kind = "decode" /\ req[r2].kind = "decode"
      /\ req[r1].pc = "done" /\ req[r2].pc = "done"
      /\ Accepted(r1) /\ Accepted(r2)
      /\ req[r1].name = req[r2].name
      /\ req[r1].data = req[r2].data )
    => req[r1].response = req[r2].response

\* C10: temp-file lifecycle.  Once an accepted encode/decode POST has been
\* answered, on any path, its temp_<filename> file is gone; a request
\* rejected by validation writes nothing to the upload folder.
C10_TempFileGone ==
  /\ [](\A r \in Requests :
          (Accepted(r) /\ req[r].pc = "done")
            => ~files[temp_path(req[r].name)].exists)
  /\ [][\A r \in Requests :
          (req[r].pc = "idle" /\ req'[r].pc = "done" /\ req'[r].response.status = 400)
            => files' = files]_vars

====
